---- MODULE Spec2Model ----
(***************************************************************************)
(* A model of fetch.py: the NepJol search client.                          *)
(*                                                                         *)
(* Text (str) is a sequence of one-character strings, so that strip,       *)
(* lower, startswith, `in`, int() and urljoin are computed on characters   *)
(* as Python computes them.  The four stages (search_nepjol,               *)
(* find_pdf_link, download_file, save_to_file) and the interactive block   *)
(* under __main__ are sequential code; pc is the position of control and   *)
(* stack holds the label a stage returns to.                               *)
(***************************************************************************)
EXTENDS Integers, Sequences, FiniteSets, TLC

VARIABLES
    pc,              \* position of control
    stack,           \* return labels of the stages being executed
    exc,             \* the exception in flight, EXC_NONE when there is none
    searchPage,      \* what the search endpoint serves: its summary blocks
    query,           \* the search term
    parsed_results,  \* search_nepjol: the list being built
    i,               \* search_nepjol: index of the block being parsed
    results,         \* the list search_nepjol returned
    choice,          \* __main__: the stripped entry last read at the prompt
    selected,        \* __main__: 1-based index of the selected article, 0 if none
    article_url,     \* find_pdf_link: its argument
    viewer_tag,      \* find_pdf_link: href of the galley anchor, NO_TAG, NO_ATTR
    pdf_viewer_url,  \* find_pdf_link: the joined viewer URL
    download_tag,    \* find_pdf_link: href of the download anchor, NO_TAG, NO_ATTR
    pdf_url,         \* the value find_pdf_link returned (NONE for None)
    requested,       \* URLs passed to requests.get by the stage being executed
    response,        \* how the last of these requests ended, "none" before it
    filename,        \* download_file: destination path
    content_type,    \* download_file: the response's Content-Type ("" if absent)
    body,            \* download_file: the chunks of the response body
    f,               \* download_file: the destination file object
    nread,           \* download_file: number of chunks read and written
    fs,              \* the file system: path -> content of each existing file
    fsBefore,        \* fs as it was when download_file was entered
    success          \* the value download_file returned

vars == <<pc, stack, exc, searchPage, query, parsed_results, i, results, choice,
          selected, article_url, viewer_tag, pdf_viewer_url, download_tag,
          pdf_url, requested, response, filename, content_type, body, f,
          nread, fs, fsBefore, success>>

-----------------------------------------------------------------------------
(* Bounds of the model *)

\* the largest number of summary blocks on a search page
MaxBlocks == 2
\* the largest number of chunks in a response body
MaxChunks == 2

-----------------------------------------------------------------------------
(* String literals of the program *)

\* "No title"
NO_TITLE == <<"N", "o", " ", "t", "i", "t", "l", "e">>
\* "No authors"
NO_AUTHORS == <<"N", "o", " ", "a", "u", "t", "h", "o", "r", "s">>
\* "Unknown source"
UNKNOWN_SOURCE == <<"U", "n", "k", "n", "o", "w", "n", " ", "s", "o", "u", "r", "c", "e">>
\* "No link"
NO_LINK == <<"N", "o", " ", "l", "i", "n", "k">>
\* "https://www.nepjol.info"
SITE_ORIGIN == <<"h", "t", "t", "p", "s", ":", "/", "/", "w", "w", "w", ".", "n", "e", "p", "j", "o", "l", ".", "i", "n", "f", "o">>
\* "application/pdf"
PDF_MARKER == <<"a", "p", "p", "l", "i", "c", "a", "t", "i", "o", "n", "/", "p", "d", "f">>
\* ".pdf"
PDF_SUFFIX == <<".", "p", "d", "f">>
\* "NepJol Search Results for: "
EXPORT_TITLE == <<"N", "e", "p", "J", "o", "l", " ", "S", "e", "a", "r", "c", "h", " ", "R", "e", "s", "u", "l", "t", "s", " ", "f", "o", "r", ":", " ">>
\* "   Authors: "
AUTHORS_LABEL == <<" ", " ", " ", "A", "u", "t", "h", "o", "r", "s", ":", " ">>
\* "   Source: "
SOURCE_LABEL == <<" ", " ", " ", "S", "o", "u", "r", "c", "e", ":", " ">>
\* "   Link: "
LINK_LABEL == <<" ", " ", " ", "L", "i", "n", "k", ":", " ">>
\* "nepjol_results_"
EXPORT_PREFIX == <<"n", "e", "p", "j", "o", "l", "_", "r", "e", "s", "u", "l", "t", "s", "_">>
\* ".txt"
TXT_SUFFIX == <<".", "t", "x", "t">>
\* the width of the rule under the export's heading: '='*60
RULE_WIDTH == 60

\* None, and the two ways an anchor can fail to supply an href.  Each is a
\* one-element sequence whose element is no character, so it equals no text.
NONE == <<"<None>">>
NO_TAG == <<"<no such tag>">>
NO_ATTR == <<"<no href attribute>">>
\* the value of a local that was not assigned: the page was not fetched
NOT_FETCHED == <<"<not fetched>">>
\* a page whose markup the parser refuses (bs4 raises ParserRejectedMarkup)
REJECTED_MARKUP == <<"<rejected markup>">>

EXC_NONE == "none"
\* requests.RequestException and its subclasses
EXC_REQUEST == "RequestException"
\* any other subclass of Exception
EXC_OTHER == "Exception"

-----------------------------------------------------------------------------
(* str operations *)

UPPER == <<"A", "B", "C", "D", "E", "F", "G", "H", "I", "J", "K", "L", "M", "N", "O", "P", "Q", "R", "S", "T", "U", "V", "W", "X", "Y", "Z">>
LOWER == <<"a", "b", "c", "d", "e", "f", "g", "h", "i", "j", "k", "l", "m", "n", "o", "p", "q", "r", "s", "t", "u", "v", "w", "x", "y", "z">>
Range(s) == {s[k] : k \in DOMAIN s}
Letters == Range(UPPER) \cup Range(LOWER)
Digits == {"0", "1", "2", "3", "4", "5", "6", "7", "8", "9"}
Whitespace == {" ", "\n", "\t"}

\* c.isalnum()
IsAlnum(c) == c \in Letters \cup Digits

\* s.lower()
LowerChar(c) ==
    IF c \in Range(UPPER)
    THEN LOWER[CHOOSE k \in DOMAIN UPPER : UPPER[k] = c]
    ELSE c
Lower(s) == [k \in DOMAIN s |-> LowerChar(s[k])]

\* s.startswith(p)
StartsWith(s, p) == Len(s) >= Len(p) /\ SubSeq(s, 1, Len(p)) = p

\* p in s
Contains(s, p) ==
    \E k \in 0..(Len(s) - Len(p)) : SubSeq(s, k + 1, k + Len(p)) = p

\* s.strip()
Strip(s) ==
    LET keep == {k \in DOMAIN s : s[k] \notin Whitespace}
    IN  IF keep = {} THEN <<>>
        ELSE SubSeq(s, CHOOSE k \in keep : \A m \in keep : k <= m,
                       CHOOSE k \in keep : \A m \in keep : k >= m)

\* s.rstrip()
RStrip(s) ==
    LET keep == {k \in DOMAIN s : s[k] \notin Whitespace}
    IN  IF keep = {} THEN <<>>
        ELSE SubSeq(s, 1, CHOOSE k \in keep : \A m \in keep : k >= m)

\* "".join(c for c in s if c.isalnum() or c in (' ', '-', '_')).rstrip()
Sanitize(s) ==
    RStrip(SelectSeq(s, LAMBDA c : IsAlnum(c) \/ c \in {" ", "-", "_"}))

\* s.find(c) + 1 for a set of characters: the first position holding one, 0 if none
FindAny(s, cs) ==
    LET hits == {k \in DOMAIN s : s[k] \in cs}
    IN  IF hits = {} THEN 0 ELSE CHOOSE k \in hits : \A m \in hits : k <= m

\* s[k-1:]
From(s, k) == SubSeq(s, k, Len(s))

\* s.split(c)
RECURSIVE Split(_, _)
Split(s, c) ==
    LET k == FindAny(s, {c})
    IN  IF k = 0 THEN <<s>>
        ELSE <<SubSeq(s, 1, k - 1)>> \o Split(From(s, k + 1), c)

\* c.join(parts)
RECURSIVE Join(_, _)
Join(parts, c) ==
    IF parts = <<>> THEN <<>>
    ELSE IF Len(parts) = 1 THEN parts[1]
    ELSE parts[1] \o <<c>> \o Join(Tail(parts), c)

\* str(n) for n >= 0
RECURSIVE Str(_)
Str(n) ==
    LET d == <<"0", "1", "2", "3", "4", "5", "6", "7", "8", "9">>[(n % 10) + 1]
    IN  IF n < 10 THEN <<d>> ELSE Str(n \div 10) \o <<d>>

\* the value of a non-empty sequence of decimal digits
RECURSIVE DigitsValue(_)
DigitsValue(s) ==
    LET d == CHOOSE v \in 0..9 : Str(v) = <<s[Len(s)]>>
    IN  IF Len(s) = 1 THEN d ELSE 10 * DigitsValue(SubSeq(s, 1, Len(s) - 1)) + d

\* int(s): [ok |-> FALSE] stands for ValueError.  Surrounding whitespace is
\* ignored and one sign is accepted.
ParseInt(s) ==
    LET t == Strip(s)
        signed == t # <<>> /\ t[1] \in {"+", "-"}
        ds == IF signed THEN Tail(t) ELSE t
    IN  IF ds # <<>> /\ \A k \in DOMAIN ds : ds[k] \in Digits
        THEN [ok |-> TRUE,
              value |-> IF signed /\ t[1] = "-" THEN 0 - DigitsValue(ds)
                        ELSE DigitsValue(ds)]
        ELSE [ok |-> FALSE, value |-> 0]

-----------------------------------------------------------------------------
(* urllib.parse *)

SchemeChars == Letters \cup Digits \cup {"+", "-", "."}
\* the schemes of uses_relative and uses_netloc that the model's URLs carry
UsesRelative == {<<>>, <<"h", "t", "t", "p">>, <<"h", "t", "t", "p", "s">>}

\* urlsplit(url, scheme): scheme, netloc and path.  The model's URLs hold no
\* '?', '#' or ';', so query, fragment and params are always empty.
UrlSplit(url, default) ==
    LET colon == FindAny(url, {":"})
        hasScheme == /\ colon > 1
                     /\ url[1] \in Letters
                     /\ \A k \in 1..(colon - 1) : url[k] \in SchemeChars
        rest == IF hasScheme THEN From(url, colon + 1) ELSE url
        hasNetloc == StartsWith(rest, <<"/", "/">>)
        after == From(rest, 3)
        delim == FindAny(after, {"/"})
    IN  [scheme |-> IF hasScheme THEN Lower(SubSeq(url, 1, colon - 1)) ELSE default,
         netloc |-> IF ~hasNetloc THEN <<>>
                    ELSE IF delim = 0 THEN after
                    ELSE SubSeq(after, 1, delim - 1),
         path   |-> IF ~hasNetloc THEN rest
                    ELSE IF delim = 0 THEN <<>>
                    ELSE From(after, delim)]

\* urlunsplit((scheme, netloc, path, '', ''))
UrlUnsplit(scheme, netloc, path) ==
    LET p == IF netloc # <<>> /\ path # <<>> /\ path[1] # "/"
             THEN <<"/">> \o path ELSE path
        u == IF netloc # <<>> THEN <<"/", "/">> \o netloc \o p ELSE path
    IN  IF scheme # <<>> THEN scheme \o <<":">> \o u ELSE u

\* the loop of urljoin that removes dot segments
RECURSIVE ResolveSegments(_, _)
ResolveSegments(segments, resolved) ==
    IF segments = <<>> THEN resolved
    ELSE LET seg == Head(segments)
         IN  IF seg = <<".", ".">>
             THEN ResolveSegments(Tail(segments),
                      IF resolved = <<>> THEN <<>>
                      ELSE SubSeq(resolved, 1, Len(resolved) - 1))
             ELSE IF seg = <<".">>
             THEN ResolveSegments(Tail(segments), resolved)
             ELSE ResolveSegments(Tail(segments), Append(resolved, seg))

\* segments[1:-1] = filter(None, segments[1:-1])
DropEmptyInner(segments) ==
    IF Len(segments) <= 2 THEN segments
    ELSE <<segments[1]>>
         \o SelectSeq(SubSeq(segments, 2, Len(segments) - 1), LAMBDA s : s # <<>>)
         \o <<segments[Len(segments)]>>

\* a plausible slip: the href is appended to the base URL
UrlJoinAppend(base, url) == base \o url

\* urllib.parse.urljoin(base, url)
UrlJoin(base, url) ==
    IF base = <<>> THEN url
    ELSE IF url = <<>> THEN base
    ELSE
    LET b == UrlSplit(base, <<>>)
        u == UrlSplit(url, b.scheme)
        bparts == Split(b.path, "/")
        base_parts == IF bparts[Len(bparts)] # <<>>
                      THEN SubSeq(bparts, 1, Len(bparts) - 1) ELSE bparts
        segments == IF u.path # <<>> /\ u.path[1] = "/"
                    THEN Split(u.path, "/")
                    ELSE DropEmptyInner(base_parts \o Split(u.path, "/"))
        resolved == ResolveSegments(segments, <<>>)
        resolved_path == IF segments[Len(segments)] \in {<<".">>, <<".", ".">>}
                         THEN Append(resolved, <<>>) ELSE resolved
        joined == Join(resolved_path, "/")
    IN  IF u.scheme # b.scheme \/ u.scheme \notin UsesRelative THEN url
        ELSE IF u.netloc # <<>> THEN UrlUnsplit(u.scheme, u.netloc, u.path)
        ELSE IF u.path = <<>> THEN UrlUnsplit(u.scheme, b.netloc, b.path)
        ELSE UrlUnsplit(u.scheme, b.netloc,
                        IF joined = <<>> THEN <<"/">> ELSE joined)

\* a URL with a scheme and a host
IsAbsoluteUrl(url) ==
    LET u == UrlSplit(url, <<>>) IN u.scheme # <<>> /\ u.netloc # <<>>

-----------------------------------------------------------------------------
(* Control: calls, returns and exceptions *)

\* the return labels of a stage that is called on its own
StandaloneLabels ==
    {"search_returned", "find_returned", "dl_returned", "save_returned"}
\* the label control reaches when the stage being executed returns
ReturnLabel == Head(stack)
PopStack == Tail(stack)
\* where an exception that leaves a stage lands: the handler of __main__
\* when the stage was called from it
RaiseLabel == IF Head(stack) \in StandaloneLabels THEN "raised" ELSE "main_except"

\* the ways requests.get(...) followed by raise_for_status() can end for a
\* URL: requests refuses a URL without an http(s) scheme or without a host
\* (MissingSchema, InvalidSchema, InvalidURL) before any I/O; otherwise the
\* request succeeds with a 2xx status or fails in transport
RequestOutcomes(url) ==
    LET u == UrlSplit(url, <<>>)
    IN  IF u.scheme \in (UsesRelative \ {<<>>}) /\ u.netloc # <<>>
        THEN {"ok", "ConnectionError", "Timeout", "HTTPError"}
        ELSE {"InvalidURL"}

-----------------------------------------------------------------------------
(* search_nepjol *)

\* "https://www.nepjol.info/index.php/index/search/index"
SEARCH_URL == SITE_ORIGIN \o <<"/", "i", "n", "d", "e", "x", ".", "p", "h", "p", "/", "i", "n", "d", "e", "x", "/", "s", "e", "a", "r", "c", "h", "/", "i", "n", "d", "e", "x">>

\* tag.get_text(strip=True) of an element whose text nodes are `nodes`: every
\* node is stripped, the empty ones are dropped, the rest are concatenated
RECURSIVE GetText(_)
GetText(nodes) ==
    IF nodes = <<>> THEN <<>> ELSE Strip(Head(nodes)) \o GetText(Tail(nodes))

\* lines 74-78: the link of a block whose first anchor has href `href`
\* (NO_ATTR when there is no anchor or it has no href)
AbsoluteLink(href) ==
    LET link == IF href = NO_ATTR THEN NO_LINK ELSE href
    IN  IF StartsWith(link, <<"/">>) THEN SITE_ORIGIN \o link ELSE link

\* a slip: a block without an anchor is skipped
ParseBlockDropsBare(parsed, result) ==
    IF ~result.a THEN parsed
    ELSE Append(parsed,
             [title   |-> GetText(result.a_text),
              authors |-> IF result.authors THEN GetText(result.authors_text)
                          ELSE NO_AUTHORS,
              link    |-> AbsoluteLink(result.href),
              source  |-> IF result.source THEN GetText(result.source_text)
                          ELSE UNKNOWN_SOURCE])

\* lines 71-97, one iteration of the loop over the summary blocks: the list
\* with the block's entry appended.  No operation of the body raises on an
\* element built by html.parser (find gives a Tag or None, get_text a str,
\* an href value is a str), so the handler of line 95 drops no block.
ParseBlock(parsed, result) ==
    Append(parsed,
        [title   |-> IF result.a THEN GetText(result.a_text) ELSE NO_TITLE,
         authors |-> IF result.authors THEN GetText(result.authors_text)
                     ELSE NO_AUTHORS,
         link    |-> AbsoluteLink(result.href),
         source  |-> IF result.source THEN GetText(result.source_text)
                     ELSE UNKNOWN_SOURCE])

\* lines 69-100 as a function of the blocks
RECURSIVE ParseAll(_, _)
ParseAll(blocks, parsed) ==
    IF blocks = <<>> THEN parsed
    ELSE ParseAll(Tail(blocks), ParseBlock(parsed, Head(blocks)))

\* a slip: only transport failures are caught
CatchesRequestOnly(e) == e = EXC_REQUEST

\* the except clauses of a stage: requests.RequestException, then Exception
Catches(e) == e \in {EXC_REQUEST, EXC_OTHER}

\* lines 54-55: the request and raise_for_status
SearchRequest ==
    /\ pc = "search_request"
    /\ requested' = <<SEARCH_URL>>
    /\ \E outcome \in RequestOutcomes(SEARCH_URL) :
          /\ response' = outcome
          /\ IF outcome = "ok"
             THEN pc' = "search_parse" /\ exc' = exc
             ELSE pc' = "search_except" /\ exc' = EXC_REQUEST
    /\ UNCHANGED <<stack, searchPage, query, parsed_results, i, results, choice,
                   selected, article_url, viewer_tag, pdf_viewer_url,
                   download_tag, pdf_url, filename, content_type, body, f, nread,
                   fs, fsBefore, success>>

\* lines 60-69: the page is parsed and its summary blocks are collected; a
\* page without blocks returns []
SearchParse ==
    /\ pc = "search_parse"
    /\ IF searchPage.rejected
       THEN /\ pc' = "search_except" /\ exc' = EXC_OTHER
            /\ UNCHANGED <<stack, parsed_results, i, results>>
       ELSE IF searchPage.blocks = <<>>
       THEN /\ results' = <<>>
            /\ pc' = ReturnLabel /\ stack' = PopStack
            /\ UNCHANGED <<exc, parsed_results, i>>
       ELSE /\ parsed_results' = <<>> /\ i' = 1
            /\ pc' = "search_block"
            /\ UNCHANGED <<stack, exc, results>>
    /\ UNCHANGED <<searchPage, query, choice, selected, article_url, viewer_tag,
                   pdf_viewer_url, download_tag, pdf_url, requested, filename,
                   content_type, body, f, nread, fs, fsBefore, success,
                   response>>

\* lines 70-97: one block is parsed
SearchBlock ==
    /\ pc = "search_block"
    /\ i <= Len(searchPage.blocks)
    /\ parsed_results' = ParseBlock(parsed_results, searchPage.blocks[i])
    /\ i' = i + 1
    /\ UNCHANGED <<pc, stack, exc, searchPage, query, results, choice, selected,
                   article_url, viewer_tag, pdf_viewer_url, download_tag,
                   pdf_url, requested, filename, content_type, body, f, nread,
                   fs, fsBefore, success,
                   response>>

\* lines 99-100
SearchReturn ==
    /\ pc = "search_block"
    /\ i > Len(searchPage.blocks)
    /\ results' = parsed_results
    /\ pc' = ReturnLabel /\ stack' = PopStack
    /\ UNCHANGED <<exc, searchPage, query, parsed_results, i, choice, selected,
                   article_url, viewer_tag, pdf_viewer_url, download_tag,
                   pdf_url, requested, filename, content_type, body, f, nread,
                   fs, fsBefore, success,
                   response>>

\* lines 102-107
SearchExcept ==
    /\ pc = "search_except"
    /\ IF Catches(exc)
       THEN /\ results' = <<>> /\ exc' = EXC_NONE
            /\ pc' = ReturnLabel /\ stack' = PopStack
       ELSE /\ pc' = RaiseLabel /\ stack' = <<>>
            /\ UNCHANGED <<exc, results>>
    /\ UNCHANGED <<searchPage, query, parsed_results, i, choice, selected,
                   article_url, viewer_tag, pdf_viewer_url, download_tag,
                   pdf_url, requested, filename, content_type, body, f, nread,
                   fs, fsBefore, success,
                   response>>

search_nepjol ==
    SearchRequest \/ SearchParse \/ SearchBlock \/ SearchReturn \/ SearchExcept

-----------------------------------------------------------------------------
(* find_pdf_link *)

\* "/view/1"
H_VIEW_ABS == <<"/", "v", "i", "e", "w", "/", "1">>
\* "view/1"
H_VIEW_REL == <<"v", "i", "e", "w", "/", "1">>
\* "https://site/view/1"
URL_VIEWER == <<"h", "t", "t", "p", "s", ":", "/", "/", "s", "i", "t", "e", "/", "v", "i", "e", "w", "/", "1">>
\* "/download/1/pdf"
H_DL_ABS == <<"/", "d", "o", "w", "n", "l", "o", "a", "d", "/", "1", "/", "p", "d", "f">>
\* "download/1/pdf"
H_DL_REL == <<"d", "o", "w", "n", "l", "o", "a", "d", "/", "1", "/", "p", "d", "f">>
\* "../download/1/pdf"
H_DL_UP == <<".", ".", "/", "d", "o", "w", "n", "l", "o", "a", "d", "/", "1", "/", "p", "d", "f">>
\* "https://cdn.example/f.pdf"
H_DL_CDN == <<"h", "t", "t", "p", "s", ":", "/", "/", "c", "d", "n", ".", "e", "x", "a", "m", "p", "l", "e", "/", "f", ".", "p", "d", "f">>

\* what soup.find('a', class_='obj_galley_link pdf') can give on an article
\* page: no such anchor, one without href, or the href of the first one
GalleyAnchors == {NO_TAG, NO_ATTR, H_VIEW_ABS, H_VIEW_REL, URL_VIEWER, <<>>}
\* what soup_viewer.find('a', class_='download') can give on a viewer page
DownloadAnchors == {NO_TAG, NO_ATTR, H_DL_ABS, H_DL_REL, H_DL_UP, H_DL_CDN, <<>>}

\* a slip: the test of line 170 without its has_attr half
HasHrefIfTag(tag) == tag # NO_TAG

\* `tag and tag.has_attr('href')` of lines 170 and 185
HasHref(tag) == tag # NO_TAG /\ tag # NO_ATTR

\* lines 163-175: the article page is fetched and searched for the galley anchor
FindHop1 ==
    /\ pc = "find_hop1"
    /\ requested' = <<article_url>>
    /\ download_tag' = NOT_FETCHED
    /\ \E outcome \in RequestOutcomes(article_url) :
          /\ response' = outcome
          /\ IF outcome # "ok"
             THEN /\ exc' = EXC_REQUEST /\ pc' = "find_except"
                  /\ viewer_tag' = NOT_FETCHED /\ pdf_viewer_url' = <<>>
                  /\ UNCHANGED <<stack, pdf_url>>
             ELSE \E tag \in GalleyAnchors \cup {REJECTED_MARKUP} :
                     IF tag = REJECTED_MARKUP
                     THEN /\ exc' = EXC_OTHER /\ pc' = "find_except"
                          /\ viewer_tag' = NOT_FETCHED /\ pdf_viewer_url' = <<>>
                          /\ UNCHANGED <<stack, pdf_url>>
                     ELSE /\ viewer_tag' = tag
                          /\ IF HasHref(tag)
                             THEN /\ pdf_viewer_url' = UrlJoin(article_url, tag)
                                  /\ pc' = "find_hop2"
                                  /\ UNCHANGED <<stack, exc, pdf_url>>
                             ELSE /\ pdf_url' = NONE
                                  /\ pdf_viewer_url' = <<>>
                                  /\ pc' = ReturnLabel /\ stack' = PopStack
                                  /\ exc' = exc
    /\ UNCHANGED <<searchPage, query, parsed_results, i, results, choice,
                   selected, article_url, filename, content_type, body, f,
                   nread, fs, fsBefore, success>>

\* lines 178-191: the viewer page is fetched and searched for the download anchor
FindHop2 ==
    /\ pc = "find_hop2"
    /\ requested' = Append(requested, pdf_viewer_url)
    /\ \E outcome \in RequestOutcomes(pdf_viewer_url) :
          /\ response' = outcome
          /\ IF outcome # "ok"
             THEN /\ exc' = EXC_REQUEST /\ pc' = "find_except"
                  /\ UNCHANGED <<stack, download_tag, pdf_url>>
             ELSE \E tag \in DownloadAnchors \cup {REJECTED_MARKUP} :
                     IF tag = REJECTED_MARKUP
                     THEN /\ exc' = EXC_OTHER /\ pc' = "find_except"
                          /\ UNCHANGED <<stack, download_tag, pdf_url>>
                     ELSE /\ download_tag' = tag
                          /\ pdf_url' = IF HasHref(tag)
                                        THEN UrlJoin(pdf_viewer_url, tag)
                                        ELSE NONE
                          /\ pc' = ReturnLabel /\ stack' = PopStack
                          /\ exc' = exc
    /\ UNCHANGED <<searchPage, query, parsed_results, i, results, choice,
                   selected, article_url, viewer_tag, pdf_viewer_url, filename,
                   content_type, body, f, nread, fs, fsBefore, success>>

\* lines 193-198
FindExcept ==
    /\ pc = "find_except"
    /\ IF Catches(exc)
       THEN /\ pdf_url' = NONE /\ exc' = EXC_NONE
            /\ pc' = ReturnLabel /\ stack' = PopStack
       ELSE /\ pc' = RaiseLabel /\ stack' = <<>>
            /\ UNCHANGED <<exc, pdf_url>>
    /\ UNCHANGED <<searchPage, query, parsed_results, i, results, choice,
                   selected, article_url, viewer_tag, pdf_viewer_url,
                   download_tag, requested, filename, content_type, body, f,
                   nread, fs, fsBefore, success,
                   response>>

find_pdf_link == FindHop1 \/ FindHop2 \/ FindExcept

-----------------------------------------------------------------------------
(* download_file *)

\* "application/pdf; charset=binary"
CT_PDF_PARAM == PDF_MARKER \o <<";", " ", "c", "h", "a", "r", "s", "e", "t", "=", "b", "i", "n", "a", "r", "y">>
\* "text/html"
CT_HTML == <<"t", "e", "x", "t", "/", "h", "t", "m", "l">>
\* "Application/PDF"
CT_UPPER == <<"A", "p", "p", "l", "i", "c", "a", "t", "i", "o", "n", "/", "P", "D", "F">>

\* response.headers.get('Content-Type', ''): <<>> when the header is absent
ContentTypes == {PDF_MARKER, CT_PDF_PARAM, CT_HTML, CT_UPPER, <<>>}

\* the chunks iter_content can deliver
ChunkValues == {"x"}
RECURSIVE SeqsUpTo(_, _)
SeqsUpTo(S, n) ==
    IF n = 0 THEN {<<>>}
    ELSE LET shorter == SeqsUpTo(S, n - 1)
         IN  shorter \cup {Append(s, c) : s \in {t \in shorter : Len(t) = n - 1}, c \in S}
Bodies == SeqsUpTo(ChunkValues, MaxChunks)

\* the file system with `content` at `path`
WithFile(fsys, path, content) ==
    [p \in DOMAIN fsys \cup {path} |-> IF p = path THEN content ELSE fsys[p]]
\* the file system without `path`
WithoutFile(fsys, path) == [p \in DOMAIN fsys \ {path} |-> fsys[p]]

\* a slip: the test accepts any declared type
IsPdfIfDeclared(ct) == ct # <<>>

\* line 217: 'application/pdf' in content_type
IsPdf(ct) == Contains(ct, PDF_MARKER)

\* a slip: mode 'ab', which keeps what the file held
OpenAppend(fsys, path) ==
    IF path \in DOMAIN fsys THEN fsys ELSE WithFile(fsys, path, <<>>)

\* line 222: open(filename, 'wb') creates the file or truncates it
OpenWb(fsys, path) == WithFile(fsys, path, <<>>)

\* a slip: the verification of line 226 is skipped
ExistsAssumed(fsys, path) == TRUE

\* line 226: os.path.exists(filename)
Exists(fsys, path) == path \in DOMAIN fsys

\* lines 210-220: the request, raise_for_status and the Content-Type test
DlRequest ==
    /\ pc = "dl_request"
    /\ requested' = <<pdf_url>>
    /\ fsBefore' = fs
    /\ f' = "unopened" /\ nread' = 0
    /\ \E outcome \in RequestOutcomes(pdf_url) :
          /\ response' = outcome
          /\ IF outcome # "ok"
             THEN /\ exc' = EXC_REQUEST /\ pc' = "dl_except"
                  /\ content_type' = NOT_FETCHED /\ body' = <<>>
                  /\ UNCHANGED <<stack, success>>
             ELSE \E ct \in ContentTypes, b \in Bodies :
                     /\ content_type' = ct /\ body' = b
                     /\ IF IsPdf(ct)
                        THEN /\ pc' = "dl_open"
                             /\ UNCHANGED <<stack, exc, success>>
                        ELSE /\ success' = FALSE
                             /\ pc' = ReturnLabel /\ stack' = PopStack
                             /\ exc' = exc
    /\ UNCHANGED <<searchPage, query, parsed_results, i, results, choice,
                   selected, article_url, viewer_tag, pdf_viewer_url,
                   download_tag, pdf_url, filename, fs>>

\* line 222: the destination is opened for writing, or open raises OSError
DlOpen ==
    /\ pc = "dl_open"
    /\ \/ /\ fs' = OpenWb(fs, filename)
          /\ f' = "open" /\ pc' = "dl_stream" /\ exc' = exc
       \/ /\ exc' = EXC_OTHER /\ pc' = "dl_except"
          /\ UNCHANGED <<f, fs>>
    /\ UNCHANGED <<stack, searchPage, query, parsed_results, i, results, choice,
                   selected, article_url, viewer_tag, pdf_viewer_url,
                   download_tag, pdf_url, requested, filename, content_type,
                   body, nread, fsBefore, success,
                   response>>

\* lines 223-224: the next chunk is read and written; or reading it fails in
\* transport; or writing it raises OSError.  Leaving the with block closes
\* the file and keeps what was written.
DlChunk ==
    /\ pc = "dl_stream"
    /\ nread < Len(body)
    /\ \/ /\ fs' = WithFile(fs, filename, Append(fs[filename], body[nread + 1]))
          /\ nread' = nread + 1
          /\ UNCHANGED <<pc, exc, f>>
       \/ /\ exc' = EXC_REQUEST /\ pc' = "dl_except" /\ f' = "closed"
          /\ UNCHANGED <<nread, fs>>
       \/ /\ exc' = EXC_OTHER /\ pc' = "dl_except" /\ f' = "closed"
          /\ UNCHANGED <<nread, fs>>
    /\ UNCHANGED <<stack, searchPage, query, parsed_results, i, results, choice,
                   selected, article_url, viewer_tag, pdf_viewer_url,
                   download_tag, pdf_url, requested, filename, content_type,
                   body, fsBefore, success,
                   response>>

\* lines 224-232: the body is exhausted, the file is closed and the path is
\* tested; nothing prevents another process from removing it in between
DlVerify ==
    /\ pc = "dl_stream"
    /\ nread = Len(body)
    /\ f' = "closed"
    /\ \E removed \in BOOLEAN :
          /\ fs' = IF removed THEN WithoutFile(fs, filename) ELSE fs
          /\ success' = Exists(fs', filename)
    /\ pc' = ReturnLabel /\ stack' = PopStack
    /\ UNCHANGED <<exc, searchPage, query, parsed_results, i, results, choice,
                   selected, article_url, viewer_tag, pdf_viewer_url,
                   download_tag, pdf_url, requested, filename, content_type,
                   body, nread, fsBefore,
                   response>>

\* lines 234-239
DlExcept ==
    /\ pc = "dl_except"
    /\ IF Catches(exc)
       THEN /\ success' = FALSE /\ exc' = EXC_NONE
            /\ pc' = ReturnLabel /\ stack' = PopStack
       ELSE /\ pc' = RaiseLabel /\ stack' = <<>>
            /\ UNCHANGED <<exc, success>>
    /\ UNCHANGED <<searchPage, query, parsed_results, i, results, choice,
                   selected, article_url, viewer_tag, pdf_viewer_url,
                   download_tag, pdf_url, requested, filename, content_type,
                   body, f, nread, fs, fsBefore,
                   response>>

download_file == DlRequest \/ DlOpen \/ DlChunk \/ DlVerify \/ DlExcept

-----------------------------------------------------------------------------
(* save_to_file *)

\* '=' * 60
Rule == [k \in 1..RULE_WIDTH |-> "="]

\* lines 134-135: the default file name
ExportPath(q) == EXPORT_PREFIX \o Sanitize(q) \o TXT_SUFFIX

\* lines 143-146: the four lines of record number n and the blank line after them
ExportRecord(n, result) ==
    Str(n) \o <<".", " ">> \o result.title \o <<"\n">>
    \o AUTHORS_LABEL \o result.authors \o <<"\n">>
    \o SOURCE_LABEL \o result.source \o <<"\n">>
    \o LINK_LABEL \o result.link \o <<"\n", "\n">>

RECURSIVE ExportRecords(_, _)
ExportRecords(rs, n) ==
    IF rs = <<>> THEN <<>>
    ELSE ExportRecord(n, Head(rs)) \o ExportRecords(Tail(rs), n + 1)

\* lines 139-146: everything written to the file
ExportText(rs, q) ==
    EXPORT_TITLE \o q \o <<"\n">> \o Rule \o <<"\n", "\n">> \o ExportRecords(rs, 1)

\* lines 129-153: nothing is written for an empty list; otherwise the file is
\* opened in mode 'w' and written, or open raises and the handler reports it
SaveToFile ==
    /\ pc = "save"
    /\ IF results = <<>>
       THEN fs' = fs
       ELSE \/ fs' = WithFile(fs, ExportPath(query), ExportText(results, query))
            \/ fs' = fs
    /\ pc' = ReturnLabel /\ stack' = PopStack
    /\ UNCHANGED <<exc, searchPage, query, parsed_results, i, results, choice,
                   selected, article_url, viewer_tag, pdf_viewer_url,
                   download_tag, pdf_url, requested, filename, content_type,
                   body, f, nread, fsBefore, success,
                   response>>

save_to_file == SaveToFile

-----------------------------------------------------------------------------
(* The interactive block under __main__ *)

\* what can be typed at the selection prompt
Entries ==
    {<<"q">>, <<"Q">>, <<" ", "q", " ">>, <<"s">>, <<"S">>, <<"q", "q">>,
     <<"1">>, <<"2">>, <<"3">>, <<"4">>, <<"0">>, <<"-", "1">>, <<"0", "1">>,
     <<"+", "2">>, <<" ", "1", "\n">>, <<"1", "0">>, <<"1", "x">>, <<"x">>,
     <<"-">>, <<>>, <<" ">>}
\* what can be typed at the query prompt
RawQueries == {<<>>, <<" ">>, <<"r">>, <<" ", "r", "/", "k", " ">>}
\* what can be typed at the download prompt
Confirmations == {<<"y">>, <<"Y">>, <<"y", "e", "s">>, <<"n">>, <<>>, <<" ", "y">>}

\* bool(x) of a str or None
Truthy(x) == x # NONE /\ x # <<>>

\* line 272: 0 <= index < len(results)
InRange(index, n) == 0 <= index /\ index < n

\* line 271: int(choice) - 1; ok is FALSE when int raises ValueError
ChoiceIndex(c) ==
    LET n == ParseInt(c) IN [ok |-> n.ok, index |-> n.value - 1]

\* lines 270-272: the entry selects an article of a list of n
SelectsArticle(c, n) ==
    ChoiceIndex(c).ok /\ InRange(ChoiceIndex(c).index, n)

\* a slip: the comparison without .lower()
IsCommandExact(c, letter) == c = <<letter>>

\* lines 262 and 265: choice.lower() == 'q', choice.lower() == 's'
IsCommand(c, letter) == Lower(c) = <<letter>>

\* lines 247-254: the query is read and stripped; an empty one ends the run
MainQuery ==
    /\ pc = "main_query"
    /\ \E raw \in RawQueries :
          /\ query' = Strip(raw)
          /\ IF query' = <<>>
             THEN pc' = "main_finally" /\ stack' = stack
             ELSE pc' = "search_request" /\ stack' = <<"main_results">>
    /\ UNCHANGED <<exc, searchPage, parsed_results, i, results, choice,
                   selected, article_url, viewer_tag, pdf_viewer_url,
                   download_tag, pdf_url, requested, filename, content_type,
                   body, f, nread, fs, fsBefore, success,
                   response>>

\* lines 254-257: search_nepjol has returned and its locals are gone; the
\* results are listed and the loop is entered if there are any
MainResults ==
    /\ pc = "main_results"
    /\ parsed_results' = <<>> /\ i' = 0 /\ requested' = <<>>
    /\ response' = "none"
    /\ pc' = IF results # <<>> THEN "main_prompt" ELSE "main_finally"
    /\ UNCHANGED <<stack, exc, searchPage, query, results, choice, selected,
                   article_url, viewer_tag, pdf_viewer_url, download_tag,
                   pdf_url, filename, content_type, body, f, nread, fs,
                   fsBefore, success>>

\* lines 259-277 and 295-300: one entry is read and dispatched
MainPrompt ==
    /\ pc = "main_prompt"
    /\ \E entry \in Entries :
          /\ choice' = Strip(entry)
          /\ IF IsCommand(choice', "q")
             THEN /\ pc' = "main_finally"
                  /\ UNCHANGED <<stack, selected, article_url>>
             ELSE IF IsCommand(choice', "s")
             THEN /\ pc' = "save" /\ stack' = <<"main_finally">>
                  /\ UNCHANGED <<selected, article_url>>
             ELSE IF SelectsArticle(choice', Len(results))
             THEN /\ selected' = ChoiceIndex(choice').index + 1
                  /\ article_url' = results[selected'].link
                  /\ pc' = "find_hop1" /\ stack' = <<"main_pdf">>
             ELSE /\ pc' = "main_prompt"
                  /\ UNCHANGED <<stack, selected, article_url>>
    /\ UNCHANGED <<exc, searchPage, query, parsed_results, i, results,
                   viewer_tag, pdf_viewer_url, download_tag, pdf_url,
                   requested, filename, content_type, body, f, nread, fs,
                   fsBefore, success,
                   response>>

\* lines 277-293: find_pdf_link has returned and its locals are gone; the
\* link is reported and the download is offered if there is one
MainPdf ==
    /\ pc = "main_pdf"
    /\ article_url' = <<>> /\ viewer_tag' = NOT_FETCHED
    /\ pdf_viewer_url' = <<>> /\ download_tag' = NOT_FETCHED
    /\ requested' = <<>> /\ response' = "none"
    /\ IF Truthy(pdf_url)
       THEN \E download_choice \in Confirmations :
               IF Lower(download_choice) \in {<<"y">>, <<"y", "e", "s">>}
               THEN /\ filename' = Sanitize(results[selected].title) \o PDF_SUFFIX
                    /\ pc' = "dl_request" /\ stack' = <<"main_dl">>
               ELSE /\ pc' = "main_prompt"
                    /\ UNCHANGED <<stack, filename>>
       ELSE /\ pc' = "main_prompt"
            /\ UNCHANGED <<stack, filename>>
    /\ UNCHANGED <<exc, searchPage, query, parsed_results, i, results, choice,
                   selected, pdf_url, content_type, body, f, nread, fs,
                   fsBefore, success>>

\* lines 288-290: download_file has returned and its locals are gone; the
\* outcome of the download is logged
MainDl ==
    /\ pc = "main_dl"
    /\ content_type' = NOT_FETCHED /\ body' = <<>> /\ f' = "unopened"
    /\ nread' = 0 /\ fsBefore' = fs /\ requested' = <<>> /\ response' = "none"
    /\ pc' = "main_prompt"
    /\ UNCHANGED <<stack, exc, searchPage, query, parsed_results, i, results,
                   choice, selected, article_url, viewer_tag, pdf_viewer_url,
                   download_tag, pdf_url, filename, fs, success>>

\* lines 247, 259 and 281: input() raises EOFError when the input has ended
MainInputEnds ==
    /\ \/ pc \in {"main_query", "main_prompt"}
       \/ pc = "main_pdf" /\ Truthy(pdf_url)
    /\ exc' = EXC_OTHER /\ pc' = "main_except"
    /\ UNCHANGED <<stack, searchPage, query, parsed_results, i, results,
                   choice, selected, article_url, viewer_tag, pdf_viewer_url,
                   download_tag, pdf_url, requested, filename, content_type,
                   body, f, nread, fs, fsBefore, success,
                   response>>

\* lines 302-304
MainExcept ==
    /\ pc = "main_except"
    /\ exc' = EXC_NONE /\ pc' = "main_finally"
    /\ UNCHANGED <<stack, searchPage, query, parsed_results, i, results,
                   choice, selected, article_url, viewer_tag, pdf_viewer_url,
                   download_tag, pdf_url, requested, filename, content_type,
                   body, f, nread, fs, fsBefore, success,
                   response>>

\* lines 306-308
MainFinally ==
    /\ pc = "main_finally"
    /\ pc' = "finished"
    /\ UNCHANGED <<stack, exc, searchPage, query, parsed_results, i, results,
                   choice, selected, article_url, viewer_tag, pdf_viewer_url,
                   download_tag, pdf_url, requested, filename, content_type,
                   body, f, nread, fs, fsBefore, success,
                   response>>

main ==
    \/ MainQuery \/ MainResults \/ MainPrompt \/ MainPdf \/ MainDl
    \/ MainInputEnds \/ MainExcept \/ MainFinally

-----------------------------------------------------------------------------
(* The environment: what the site can serve *)

\* "/a/1"
H_ABS_PATH == <<"/", "a", "/", "1">>
\* "a/1"
H_REL_PATH == <<"a", "/", "1">>
\* "https://www.nepjol.info/a/1"
H_ABSOLUTE == SITE_ORIGIN \o H_ABS_PATH
\* "//cdn.example/a"
H_NETWORK_PATH == <<"/", "/", "c", "d", "n", ".", "e", "x", "a", "m", "p", "l", "e", "/", "a">>
\* "https://site/a/1"
H_SITE_ARTICLE == <<"h", "t", "t", "p", "s", ":", "/", "/", "s", "i", "t", "e", "/", "a", "/", "1">>

\* "https://site/a/"
H_SITE_DIR == <<"h", "t", "t", "p", "s", ":", "/", "/", "s", "i", "t", "e", "/", "a", "/">>

\* the href of a block's first anchor: none, or one of each form
Hrefs == {NO_ATTR, H_ABS_PATH, H_REL_PATH, H_ABSOLUTE, H_NETWORK_PATH, <<>>}

\* the text nodes of an anchor: "R", and "\n R\ni ", " ", "S\n"
TEXT_PLAIN == << <<"R">> >>
TEXT_NODES == << <<"\n", " ", "R", "\n", "i", " ">>, <<" ">>, <<"S", "\n">> >>
\* the text nodes of an authors and of a source element
TEXT_AUTHORS == << <<" ", "A", "\n">> >>
TEXT_SOURCE == << <<"J">> >>

\* a summary block: its first anchor (if any) with its href and text, its
\* authors element (if any) and its source element (if any)
Block(a, href, a_text, authors, source) ==
    [a |-> a, href |-> href, a_text |-> a_text,
     authors |-> authors,
     authors_text |-> IF authors THEN TEXT_AUTHORS ELSE <<>>,
     source |-> source,
     source_text |-> IF source THEN TEXT_SOURCE ELSE <<>>]

Blocks ==
    {Block(FALSE, NO_ATTR, <<>>, au, so) : au \in BOOLEAN, so \in BOOLEAN}
    \cup {Block(TRUE, h[1], h[2], au, so) :
             h \in Hrefs \X {TEXT_PLAIN, TEXT_NODES}, au \in BOOLEAN, so \in BOOLEAN}

Page(blocks) == [rejected |-> FALSE, blocks |-> blocks]
RejectedPage == [rejected |-> TRUE, blocks |-> <<>>]

\* every search page of at most MaxBlocks blocks
SearchPages == {Page(bs) : bs \in SeqsUpTo(Blocks, MaxBlocks)} \cup {RejectedPage}

\* the pages of the whole-program runs: blocks without and with an anchor
MainBlocks ==
    {Block(FALSE, NO_ATTR, <<>>, FALSE, FALSE),
     Block(TRUE, H_ABS_PATH, TEXT_NODES, TRUE, TRUE)}
MainPages == {Page(bs) : bs \in SeqsUpTo(MainBlocks, MaxBlocks)} \cup {RejectedPage}

\* one text node that reads like the end of a record and the start of the
\* next: "R\n   Authors: A\n   Source: J\n   Link: <link>\n\n2. R"
TEXT_RECORDS ==
    << <<"R", "\n">> \o AUTHORS_LABEL \o <<"A", "\n">> \o SOURCE_LABEL
       \o <<"J", "\n">> \o LINK_LABEL \o H_ABSOLUTE \o <<"\n", "\n">>
       \o <<"2", ".", " ", "R">> >>

\* the pages whose results are exported
ExportBlocks ==
    {Block(FALSE, NO_ATTR, <<>>, FALSE, FALSE),
     Block(TRUE, H_REL_PATH, TEXT_PLAIN, FALSE, FALSE),
     Block(TRUE, H_ABS_PATH, TEXT_PLAIN, TRUE, TRUE),
     Block(TRUE, H_ABS_PATH, TEXT_NODES, TRUE, TRUE),
     Block(TRUE, H_ABS_PATH, TEXT_RECORDS, TRUE, TRUE)}
ExportPages == {Page(bs) : bs \in SeqsUpTo(ExportBlocks, MaxBlocks)}

\* the links search_nepjol can hand to find_pdf_link, and the article of the
\* worked example
ArticleUrls == {AbsoluteLink(h) : h \in Hrefs} \cup {H_SITE_ARTICLE, H_SITE_DIR}

\* the links find_pdf_link can hand to download_file
DownloadUrls == {UrlJoin(H_SITE_ARTICLE, H_DL_ABS), H_DL_CDN}

\* "RiS.pdf" and "old.pdf"
PATH_R == Sanitize(GetText(TEXT_NODES)) \o PDF_SUFFIX
PATH_OTHER == <<"o", "l", "d">> \o PDF_SUFFIX
EmptyFs == <<>>
\* the directory before a download: empty, holding another file, or holding
\* an earlier copy of the destination
Directories ==
    {EmptyFs,
     WithFile(EmptyFs, PATH_OTHER, <<"x">>),
     WithFile(WithFile(EmptyFs, PATH_OTHER, <<"x">>), PATH_R, <<"y", "y", "y", "y">>)}

-----------------------------------------------------------------------------
(* Initial states and specifications *)

IdleSearch ==
    parsed_results = <<>> /\ i = 0 /\ requested = <<>> /\ response = "none"
IdleMain == choice = <<>> /\ selected = 0 /\ exc = EXC_NONE
IdleResolve ==
    viewer_tag = NOT_FETCHED /\ pdf_viewer_url = <<>> /\ download_tag = NOT_FETCHED
IdleDownload ==
    /\ content_type = NOT_FETCHED /\ body = <<>> /\ f = "unopened" /\ nread = 0
    /\ fsBefore = fs /\ success = FALSE

\* the program is started
Init ==
    /\ pc = "main_query" /\ stack = <<>>
    /\ searchPage \in MainPages
    /\ query = <<>> /\ results = <<>>
    /\ article_url = <<>> /\ pdf_url = NONE /\ filename = <<>>
    /\ fs = EmptyFs
    /\ IdleSearch /\ IdleMain /\ IdleResolve /\ IdleDownload

Next == main \/ search_nepjol \/ find_pdf_link \/ download_file \/ save_to_file

Spec == Init /\ [][Next]_vars

\* search_nepjol(query) is called
InitSearch ==
    /\ pc = "search_request" /\ stack = <<"search_returned">>
    /\ searchPage \in SearchPages
    /\ query = <<"r">> /\ results = <<>>
    /\ article_url = <<>> /\ pdf_url = NONE /\ filename = <<>>
    /\ fs = EmptyFs
    /\ IdleSearch /\ IdleMain /\ IdleResolve /\ IdleDownload

SpecSearch == InitSearch /\ [][search_nepjol]_vars

\* find_pdf_link(article_url) is called
InitResolve ==
    /\ pc = "find_hop1" /\ stack = <<"find_returned">>
    /\ searchPage = Page(<<>>)
    /\ query = <<"r">> /\ results = <<>>
    /\ article_url \in ArticleUrls /\ pdf_url = NONE /\ filename = <<>>
    /\ fs = EmptyFs
    /\ IdleSearch /\ IdleMain /\ IdleResolve /\ IdleDownload

SpecResolve == InitResolve /\ [][find_pdf_link]_vars

\* download_file(pdf_url, filename) is called
InitDownload ==
    /\ pc = "dl_request" /\ stack = <<"dl_returned">>
    /\ searchPage = Page(<<>>)
    /\ query = <<"r">> /\ results = <<>>
    /\ article_url = <<>> /\ pdf_url \in DownloadUrls /\ filename = PATH_R
    /\ fs \in Directories
    /\ IdleSearch /\ IdleMain /\ IdleResolve /\ IdleDownload

SpecDownload == InitDownload /\ [][download_file]_vars

\* save_to_file(results, query) is called on a list search_nepjol returned
InitExport ==
    /\ pc = "save" /\ stack = <<"save_returned">>
    /\ searchPage \in ExportPages
    /\ query \in {Strip(raw) : raw \in RawQueries} \ {<<>>}
    /\ results = ParseAll(searchPage.blocks, <<>>)
    /\ article_url = <<>> /\ pdf_url = NONE /\ filename = <<>>
    /\ fs = EmptyFs
    /\ IdleSearch /\ IdleMain /\ IdleResolve /\ IdleDownload

SpecExport == InitExport /\ [][save_to_file]_vars

-----------------------------------------------------------------------------
(* Properties of search_nepjol *)

\* search_nepjol has just returned to its caller
SearchReturned == pc \in {"search_returned", "main_results"}

\* C1: when the search page was fetched and parsed, search_nepjol returns one
\* entry per summary block, in page order: the k-th entry carries the text of
\* the k-th block's anchor, authors and source elements, and the sentinel
\* default in each field whose element is missing.  A page without blocks
\* gives the empty list.
C1_EntryPerBlock ==
    (SearchReturned /\ response = "ok" /\ ~searchPage.rejected) =>
        /\ exc = EXC_NONE
        /\ Len(results) = Len(searchPage.blocks)
        /\ \A k \in 1..Len(searchPage.blocks) :
              LET b == searchPage.blocks[k]
                  r == results[k]
              IN  /\ r.title = IF b.a THEN GetText(b.a_text) ELSE NO_TITLE
                  /\ (~b.a \/ b.href = NO_ATTR) => r.link = NO_LINK
                  /\ r.authors = IF b.authors THEN GetText(b.authors_text)
                                 ELSE NO_AUTHORS
                  /\ r.source = IF b.source THEN GetText(b.source_text)
                                ELSE UNKNOWN_SOURCE

\* a page of two blocks was parsed: the first has no anchor, no authors and
\* no source element, the second has them all
C1_Witness ==
    /\ SearchReturned /\ response = "ok"
    /\ Len(searchPage.blocks) = 2 /\ Len(results) = 2
    /\ ~searchPage.blocks[1].a /\ ~searchPage.blocks[1].authors
    /\ ~searchPage.blocks[1].source
    /\ searchPage.blocks[2].a /\ searchPage.blocks[2].authors
    /\ results[1].title = NO_TITLE /\ results[2].title # NO_TITLE

\* C2: every link search_nepjol returns is "No link" or an absolute URL,
\* whatever form the href had on the page
C2_LinkSentinelOrAbsolute ==
    SearchReturned =>
        \A k \in 1..Len(results) :
            results[k].link = NO_LINK \/ IsAbsoluteUrl(results[k].link)

-----------------------------------------------------------------------------
(* Properties of find_pdf_link *)

\* find_pdf_link has just returned to its caller
FindReturned == pc \in {"find_returned", "main_pdf"}

\* "https://site/view/download/1/pdf"
URL_UNDER_VIEW == <<"h", "t", "t", "p", "s", ":", "/", "/", "s", "i", "t", "e", "/", "v", "i", "e", "w", "/", "d", "o", "w", "n", "l", "o", "a", "d", "/", "1", "/", "p", "d", "f">>
\* "https://site/download/1/pdf"
URL_UNDER_ROOT == <<"h", "t", "t", "p", "s", ":", "/", "/", "s", "i", "t", "e", "/", "d", "o", "w", "n", "l", "o", "a", "d", "/", "1", "/", "p", "d", "f">>

\* both hops of the worked example succeeded: article https://site/a/1,
\* galley href /view/1, and the given href on the download anchor
ExampleResolved(download_href) ==
    /\ FindReturned /\ response = "ok"
    /\ article_url = H_SITE_ARTICLE
    /\ viewer_tag = H_VIEW_ABS
    /\ download_tag = download_href

\* C3 as stated: in the worked example with download href /download/1/pdf
\* the returned link is https://site/view/download/1/pdf
C3_ExampleAsStated ==
    ExampleResolved(H_DL_ABS) => pdf_url = URL_UNDER_VIEW

\* C3 as amended: the download href is joined to the viewer page's URL by the
\* rules of URL resolution.  In the worked example the viewer page is
\* https://site/view/1; the rooted href /download/1/pdf replaces its whole
\* path and gives https://site/download/1/pdf, and it is the href
\* download/1/pdf, without the leading slash, that gives
\* https://site/view/download/1/pdf (against the article URL it would give
\* https://site/a/download/1/pdf).
C3_JoinedToViewerUrl ==
    /\ ExampleResolved(H_DL_ABS) =>
          pdf_viewer_url = URL_VIEWER /\ pdf_url = URL_UNDER_ROOT
    /\ ExampleResolved(H_DL_REL) =>
          pdf_viewer_url = URL_VIEWER /\ pdf_url = URL_UNDER_VIEW

\* the worked example was resolved
C3_Witness == ExampleResolved(H_DL_ABS) /\ pdf_url # NONE

\* C4: an article page without the galley anchor, or whose galley anchor has
\* no href, makes find_pdf_link return None after one request and without
\* raising; a viewer page without a download anchor carrying an href makes
\* it return None without raising; the viewer page is requested only when
\* the galley anchor has an href.
C4_MissingAnchorGivesNone ==
    /\ pc # "raised"
    /\ pc = "find_hop2" => viewer_tag \notin {NO_TAG, NO_ATTR, NOT_FETCHED}
    /\ (FindReturned /\ viewer_tag \in {NO_TAG, NO_ATTR}) =>
          pdf_url = NONE /\ exc = EXC_NONE /\ requested = <<article_url>>
    /\ (FindReturned /\ download_tag \in {NO_TAG, NO_ATTR}) =>
          pdf_url = NONE /\ exc = EXC_NONE /\ Len(requested) = 2

\* an article page whose galley anchor has no href was fetched
C4_Witness ==
    /\ FindReturned /\ response = "ok"
    /\ viewer_tag = NO_ATTR /\ pdf_url = NONE /\ Len(requested) = 1

-----------------------------------------------------------------------------
(* Properties of download_file *)

\* download_file has just returned to its caller
DlReturned == pc \in {"dl_returned", "main_dl"}

\* every path other than the destination is as it was at the call
OtherPathsKept ==
    /\ DOMAIN fs \ {filename} = DOMAIN fsBefore \ {filename}
    /\ \A p \in DOMAIN fs \ {filename} : fs[p] = fsBefore[p]

\* C5: a response whose Content-Type does not contain application/pdf (or
\* that has no Content-Type) makes download_file return False, whatever its
\* status, and the destination is not created, truncated or written.
C5_NonPdfIsNotWritten ==
    (DlReturned /\ response = "ok" /\ ~Contains(content_type, PDF_MARKER)) =>
        /\ success = FALSE
        /\ f = "unopened"
        /\ fs = fsBefore

\* a text/html response arrived while the destination held an earlier file
C5_Witness ==
    /\ DlReturned /\ response = "ok" /\ content_type = <<"t", "e", "x", "t", "/", "h", "t", "m", "l">>
    /\ success = FALSE
    /\ filename \in DOMAIN fs /\ fs[filename] # <<>>

\* C6: download_file returns True only if every chunk of the body was
\* written to the destination and the destination exists afterwards; when the
\* stream fails before the last chunk, or the path is absent afterwards, it
\* returns False.
C6_TrueOnlyWhenComplete ==
    DlReturned =>
        /\ success = TRUE =>
              /\ response = "ok" /\ f = "closed"
              /\ nread = Len(body)
              /\ filename \in DOMAIN fs
              /\ fs[filename] = body
        /\ (nread < Len(body) \/ filename \notin DOMAIN fs) => success = FALSE

\* a body of two chunks was written in full and the download returned True
C6_Witness ==
    /\ DlReturned /\ success = TRUE
    /\ Len(body) = 2 /\ fs[filename] = body

\* C10 as stated: whenever download_file returns False, no new file exists
\* at the destination and a file that was there has its content unchanged
C10_FailureChangesNothing ==
    (DlReturned /\ success = FALSE) =>
        /\ filename \notin DOMAIN fsBefore => filename \notin DOMAIN fs
        /\ (filename \in DOMAIN fsBefore /\ filename \in DOMAIN fs) =>
              fs[filename] = fsBefore[filename]

\* C10 as amended: when download_file returns False without having opened
\* the destination (failed request, Content-Type mismatch, failed open), the
\* file system is as it was before the call.  When it returns False after
\* opening it, every other path is unchanged, but the destination has been
\* created or truncated: if it still exists it holds exactly the chunks
\* written before the failure, a partial file.
C10_FailureEffect ==
    (DlReturned /\ success = FALSE) =>
        /\ f = "unopened" => fs = fsBefore
        /\ f # "unopened" =>
              /\ OtherPathsKept
              /\ filename \in DOMAIN fs => fs[filename] = SubSeq(body, 1, nread)

\* the stream failed after the first of two chunks: False is returned and
\* the destination, which held an earlier file, holds that one chunk
C10_Witness ==
    /\ DlReturned /\ success = FALSE
    /\ f = "closed" /\ nread = 1 /\ Len(body) = 2
    /\ filename \in DOMAIN fsBefore
    /\ fs[filename] = <<body[1]>> /\ fs[filename] # fsBefore[filename]

-----------------------------------------------------------------------------
(* Properties of the interactive block *)

MainLabels ==
    {"main_query", "main_results", "main_prompt", "main_pdf", "main_dl",
     "main_except", "main_finally", "finished"}
\* the labels of the selection loop and of the stages it calls
LoopLabels ==
    {"main_prompt", "find_hop1", "find_hop2", "find_except", "main_pdf",
     "dl_request", "dl_open", "dl_stream", "dl_except", "main_dl"}
\* the labels at which input() is called
InputLabels == {"main_query", "main_prompt", "main_pdf"}

\* what __main__ sees when a stage has returned after a failure inside it
FailuresAbsorbed ==
    /\ pc # "raised"
    /\ pc \in MainLabels \ {"main_except"} => exc = EXC_NONE
    /\ (pc = "main_results" /\ (response # "ok" \/ searchPage.rejected)) =>
          results = <<>>
    /\ (pc = "main_pdf" /\ (response # "ok" \/ NOT_FETCHED \in {viewer_tag, download_tag})) =>
          pdf_url = NONE
    /\ (pc = "main_dl" /\ (response # "ok" \/ f # "closed" \/ nread < Len(body))) =>
          success = FALSE

\* C7: no failure of a stage reaches its caller.  After a transport failure
\* or any other fault inside the stage, search_nepjol has returned [],
\* find_pdf_link None and download_file False, and the handler of __main__
\* is entered only from a call of input(), never from a stage.
C7_NoFailureReachesMain ==
    /\ []FailuresAbsorbed
    /\ [][pc' = "main_except" => pc \in InputLabels]_vars

\* the request for the viewer page failed with a non-2xx status and
\* find_pdf_link returned None to the loop
C7_Witness ==
    /\ pc = "main_pdf" /\ Len(requested) = 2 /\ response = "HTTPError"
    /\ pdf_url = NONE /\ exc = EXC_NONE

\* the entry is a decimal integer, as int() reads it, in 1..n
ValidNumber(c, n) ==
    LET v == ParseInt(c) IN v.ok /\ 1 <= v.value /\ v.value <= n

\* a rejected entry: control is back at the prompt and nothing was selected,
\* requested or written
Rejected ==
    /\ pc' = "main_prompt"
    /\ UNCHANGED <<selected, article_url, requested, response, pdf_url,
                   filename, fs, success, results>>

-----------------------------------------------------------------------------
(* The text export *)

\* save_to_file has returned and has written the export
Exported == pc = "save_returned" /\ ExportPath(query) \in DOMAIN fs

\* C9: read back, the file save_to_file wrote gives the number of results and
\* the title, authors, source and link of each.  Whatever the reader, that
\* needs the file to determine the results it was written from: no other
\* list of results search_nepjol can produce has the same export.
C9_ExportDeterminesResults ==
    Exported =>
        \A page \in ExportPages :
            ExportText(ParseAll(page.blocks, <<>>), query) = fs[ExportPath(query)]
                => ParseAll(page.blocks, <<>>) = results

====
